---- MODULE Spec2Model ----
(***************************************************************************)
(* State-machine model of the ObjectDetector class of                      *)
(* src/src/utils/objectDetection.ts: the asynchronous model loader, the    *)
(* per-frame detector adapter and the nearest-neighbour proximity tracker; *)
(* of the ROIAlerts component (zones, violation check, alert history); and *)
(* of the DetectionModes component (model load on mount, image detection,  *)
(* camera stream start and stop).                                          *)
(*                                                                         *)
(* JavaScript runs every continuation between two awaits atomically, so    *)
(* each action below is one such synchronous stretch of a method.          *)
(***************************************************************************)
EXTENDS Integers, Sequences, FiniteSets, TLC

(***************************************************************************)
(* Bounds of the model.                                                    *)
(***************************************************************************)
\* Largest number of raw predictions model.detect returns for one frame.
MaxDet == 2
\* Cap on the tracker counter (the counter itself is unbounded in the code).
MaxTrackingId == 3
\* Number of callers that may have a loadModel call outstanding.
NumCallers == 2
\* Cap on the number of detectObjects calls awaiting model.detect.
MaxInflight == 1
\* Raw coordinates are fixed-point numbers: the integer n stands for n / Scale pixels.
Scale == 2
\* Largest value of Date.now() (the clock is unbounded in the code).
MaxTime == 1

(***************************************************************************)
(* Program constants.                                                      *)
(***************************************************************************)
\* The "100px threshold" of assignTrackingIds.
Threshold == 100

Callers == 1..NumCallers

\* The values Date.now() may give a frame.
Timestamps == 1..MaxTime

Labels == {"person", "car"}

\* Raw bounding boxes <<x, y, width, height>> in units of 1/Scale pixel.
\* Their centers are (10,10), (70,90) and (130,90): the first two are exactly
\* 100 px apart, the last two 60 px apart, the first and last more than 100.
Boxes ==
    { <<0, 0, 20 * Scale, 20 * Scale>>,
      <<60 * Scale, 80 * Scale, 20 * Scale, 20 * Scale>>,
      <<120 * Scale, 80 * Scale, 20 * Scale, 20 * Scale>> }

\* One raw prediction of the model collaborator (score passes through unchanged).
Predictions == [class : Labels, bbox : Boxes]

SeqsUpTo(S, n) == UNION { [1..k -> S] : k \in 0..n }

\* The prediction lists model.detect may return for one frame.
Frames == SeqsUpTo(Predictions, MaxDet)

VARIABLES
    model,               \* "null" or "loaded": the field ObjectDetector.model
    isLoading,           \* the field ObjectDetector.isLoading
    trackingId,          \* the field ObjectDetector.trackingId (the tracker counter)
    previousDetections,  \* the field ObjectDetector.previousDetections
    loadPc,              \* per caller: where its loadModel call is suspended
    inflight,            \* number of detectObjects calls awaiting model.detect
    loadRet,             \* how the most recently settled loadModel call settled
    detRet,              \* how the most recently settled detectObjects call settled
    pre,                 \* the detector state just before that call settled
    issued               \* every trackId carried by a detection returned so far

vars == <<model, isLoading, trackingId, previousDetections, loadPc, inflight,
          loadRet, detRet, pre, issued>>

(***************************************************************************)
(* Pure helpers of detectObjects.                                          *)
(***************************************************************************)
\* Math.round of the rational num / den (den > 0): floor(num/den + 1/2).
Round(num, den) == (2 * num + den) \div (2 * den)

\* A variant of DetectionId that leaves the index out.
DetectionIdTimestampOnly(timestamp, index) == <<timestamp>>

\* Line 69: `${timestamp}-${index}`.  Neither number contains the dash, so
\* the string determines the pair and the pair stands for the string.
DetectionId(timestamp, index) == <<timestamp, index>>

\* Lines 63-64 and 76-77: Math.round(x + width / 2), on raw coordinates.
Center(x, width) == Round(2 * x + width, 2 * Scale)

\* Lines 65 and 78: Math.round(width * height), on raw dimensions.
Area(width, height) == Round(width * height, Scale * Scale)

\* A variant of AspectRatio that divides the other way round.
AspectRatioInverse(width, height) ==
    IF width = 0 THEN (IF height = 0 THEN "NaN" ELSE "Infinity")
    ELSE Round(100 * height, width)

\* Lines 66 and 79: Math.round(width / height * 100) / 100, kept in
\* hundredths; a zero height gives Infinity, or NaN when the width is zero too.
AspectRatio(width, height) ==
    IF height = 0 THEN (IF width = 0 THEN "NaN" ELSE "Infinity")
    ELSE Round(100 * width, height)

\* The record built by the predictions.map callback; index is 0-based.
MakeDetection(prediction, index, timestamp) ==
    LET x == prediction.bbox[1]
        y == prediction.bbox[2]
        width == prediction.bbox[3]
        height == prediction.bbox[4]
    IN  [ id          |-> DetectionId(timestamp, index),
          label       |-> prediction.class,
          x           |-> Round(x, Scale),
          y           |-> Round(y, Scale),
          width       |-> Round(width, Scale),
          height      |-> Round(height, Scale),
          centerX     |-> Center(x, width),
          centerY     |-> Center(y, height),
          area        |-> Area(width, height),
          aspectRatio |-> AspectRatio(width, height),
          timestamp   |-> timestamp,
          trackId     |-> 0 ]

\* predictions.map(...): one detection per prediction, in the model's order.
MapPredictions(predictions, timestamp) ==
    [ i \in 1..Len(predictions) |-> MakeDetection(predictions[i], i - 1, timestamp) ]

(***************************************************************************)
(* assignTrackingIds.                                                      *)
(***************************************************************************)
\* Square of the Euclidean center distance.  Math.sqrt is monotone and exact
\* on the square 100^2, so "distance < 100" is "Dist2 < Threshold^2" and
\* comparing two distances is comparing their squares.
Dist2(a, b) ==
    (a.centerX - b.centerX) * (a.centerX - b.centerX)
  + (a.centerY - b.centerY) * (a.centerY - b.centerY)

\* Variants of the guard below, each with one of its three tests changed.
ImprovesNoSqrt(detection, prev, i, best) ==
    /\ prev[i].label = detection.label
    /\ (best = 0 \/ Dist2(detection, prev[i]) < Dist2(detection, prev[best]))
    /\ Dist2(detection, prev[i]) < Threshold

ImprovesNoThreshold(detection, prev, i, best) ==
    /\ prev[i].label = detection.label
    /\ (best = 0 \/ Dist2(detection, prev[i]) < Dist2(detection, prev[best]))

ImprovesAnyLabel(detection, prev, i, best) ==
    /\ (best = 0 \/ Dist2(detection, prev[i]) < Dist2(detection, prev[best]))
    /\ Dist2(detection, prev[i]) < Threshold * Threshold

ImprovesInclusive(detection, prev, i, best) ==
    /\ prev[i].label = detection.label
    /\ (best = 0 \/ Dist2(detection, prev[i]) < Dist2(detection, prev[best]))
    /\ Dist2(detection, prev[i]) <= Threshold * Threshold

\* The guard of the inner forEach body: does prev[i] replace the best match?
\* best = 0 stands for bestMatch = null / minDistance = Infinity.
Improves(detection, prev, i, best) ==
    /\ prev[i].label = detection.label
    /\ (best = 0 \/ Dist2(detection, prev[i]) < Dist2(detection, prev[best]))
    /\ Dist2(detection, prev[i]) < Threshold * Threshold

\* The inner forEach over previousDetections, from position i on: the index
\* of bestMatch in prev, or 0 when bestMatch stays null.
RECURSIVE BestMatchFrom(_, _, _, _)
BestMatchFrom(detection, prev, i, best) ==
    IF i > Len(prev) THEN best
    ELSE BestMatchFrom(detection, prev, i + 1,
                       IF Improves(detection, prev, i, best) THEN i ELSE best)

BestMatch(detection, prev) == BestMatchFrom(detection, prev, 1, 0)

\* A variant of MatchPool that withdraws a previous detection once an
\* earlier detection of the current frame has taken its trackId.
MatchPoolExclusive(prev, current, i) ==
    SelectSeq(prev, LAMBDA p : \A k \in 1..(i - 1) : current[k].trackId # p.trackId)

\* The list the inner forEach iterates for the i-th current detection:
\* this.previousDetections, whatever the detections before it matched.
MatchPool(prev, current, i) == prev

\* A variant of MintedId for the post-increment this.trackingId++.
MintedIdPostIncrement(counter) == counter

\* The value of ++this.trackingId: the id given to an unmatched detection.
MintedId(counter) == counter + 1

\* The outer forEach: detections i.. of `current` get their trackId, in
\* order; counter is this.trackingId.  Yields the tracked list and the
\* final counter.
RECURSIVE AssignFrom(_, _, _, _)
AssignFrom(current, prev, counter, i) ==
    IF i > Len(current) THEN [list |-> current, counter |-> counter]
    ELSE LET pool == MatchPool(prev, current, i)
             m == BestMatch(current[i], pool)
         IN  IF m # 0
             THEN AssignFrom([current EXCEPT ![i].trackId = pool[m].trackId],
                             prev, counter, i + 1)
             ELSE AssignFrom([current EXCEPT ![i].trackId = MintedId(counter)],
                             prev, counter + 1, i + 1)

assignTrackingIds(currentDetections, prev, counter) ==
    AssignFrom(currentDetections, prev, counter, 1)

(***************************************************************************)
(* Initial state: a freshly constructed ObjectDetector.                    *)
(***************************************************************************)
NoLoadRet == [kind |-> "none", via |-> "none", model |-> "null", isLoading |-> FALSE]
NoDetRet == [kind |-> "none", error |-> "none", value |-> <<>>,
             modelOutcome |-> "notcalled", input |-> <<>>]
Snapshot == [previousDetections |-> previousDetections,
             trackingId |-> trackingId,
             model |-> model,
             isLoading |-> isLoading,
             inflight |-> inflight,
             issued |-> issued]

Init ==
    /\ model = "null"
    /\ isLoading = FALSE
    /\ trackingId = 0
    /\ previousDetections = <<>>
    /\ loadPc = [c \in Callers |-> "idle"]
    /\ inflight = 0
    /\ loadRet = NoLoadRet
    /\ detRet = NoDetRet
    /\ pre = [previousDetections |-> <<>>, trackingId |-> 0, model |-> "null",
              isLoading |-> FALSE, inflight |-> 0, issued |-> {}]
    /\ issued = {}

(***************************************************************************)
(* loadModel.                                                              *)
(***************************************************************************)
\* Line 27: the guard returns at once when a model is present or loading.
LoadGuard == model # "null" \/ isLoading

\* A call that takes the early return: it resolves without touching state.
LoadModelReturn(c) ==
    /\ loadPc[c] = "idle"
    /\ LoadGuard
    /\ loadRet' = [kind |-> "resolved", via |-> "return",
                   model |-> model, isLoading |-> isLoading]
    /\ UNCHANGED <<model, isLoading, trackingId, previousDetections, loadPc,
                   inflight, detRet, pre, issued>>

\* A call that passes the guard: isLoading = true, then await tf.setBackend.
LoadModelBegin(c) ==
    /\ loadPc[c] = "idle"
    /\ ~LoadGuard
    /\ isLoading' = TRUE
    /\ loadPc' = [loadPc EXCEPT ![c] = "setBackend"]
    /\ UNCHANGED <<model, trackingId, previousDetections, inflight, loadRet,
                   detRet, pre, issued>>

\* tf.setBackend resolved: await tf.ready().
SetBackendOk(c) ==
    /\ loadPc[c] = "setBackend"
    /\ loadPc' = [loadPc EXCEPT ![c] = "ready"]
    /\ UNCHANGED <<model, isLoading, trackingId, previousDetections, inflight,
                   loadRet, detRet, pre, issued>>

\* tf.ready resolved: await cocoSsd.load(...).
ReadyOk(c) ==
    /\ loadPc[c] = "ready"
    /\ loadPc' = [loadPc EXCEPT ![c] = "load"]
    /\ UNCHANGED <<model, isLoading, trackingId, previousDetections, inflight,
                   loadRet, detRet, pre, issued>>

\* A variant of FinallyIsLoading for a loader without the finally block.
FinallyIsLoadingStuck == TRUE

\* The finally block: what isLoading becomes when a load settles.
FinallyIsLoading == FALSE

\* cocoSsd.load resolved: the model is stored, finally clears isLoading.
LoadOk(c) ==
    /\ loadPc[c] = "load"
    /\ model' = "loaded"
    /\ isLoading' = FinallyIsLoading
    /\ loadPc' = [loadPc EXCEPT ![c] = "idle"]
    /\ loadRet' = [kind |-> "resolved", via |-> "load",
                   model |-> model', isLoading |-> isLoading']
    /\ UNCHANGED <<trackingId, previousDetections, inflight, detRet, pre, issued>>

\* A variant of CatchKind for a catch block that only logs.
CatchKindSwallowed == "resolved"

\* How the call settles when an awaited step throws: catch rethrows.
CatchKind == "rejected"

\* Any of the three awaited steps rejected: catch rethrows, finally clears
\* isLoading; the model field is not assigned.
LoadFail(c) ==
    /\ loadPc[c] \in {"setBackend", "ready", "load"}
    /\ isLoading' = FinallyIsLoading
    /\ loadPc' = [loadPc EXCEPT ![c] = "idle"]
    /\ loadRet' = [kind |-> CatchKind, via |-> "catch",
                   model |-> model, isLoading |-> isLoading']
    /\ UNCHANGED <<model, trackingId, previousDetections, inflight, detRet, pre, issued>>

(***************************************************************************)
(* detectObjects.                                                          *)
(***************************************************************************)
\* A variant of ModelMissing that tests the loading flag instead of the model.
ModelMissingWhileLoading == isLoading

\* Line 53: the guard that throws when no model is loaded.
ModelMissing == model = "null"

\* A call made while no model is loaded: it throws before the try block.
DetectThrow ==
    /\ ModelMissing
    /\ detRet' = [kind |-> "rejected", error |-> "ModelNotReady", value |-> <<>>,
                  modelOutcome |-> "notcalled", input |-> <<>>]
    /\ pre' = Snapshot
    /\ UNCHANGED <<model, isLoading, trackingId, previousDetections, loadPc,
                   inflight, loadRet, issued>>

\* A call with a model loaded: model.detect is invoked and awaited.
DetectBegin ==
    /\ ~ModelMissing
    /\ inflight < MaxInflight
    /\ inflight' = inflight + 1
    /\ UNCHANGED <<model, isLoading, trackingId, previousDetections, loadPc,
                   loadRet, detRet, pre, issued>>

\* A variant of NextPrevious that keeps the old list over an empty frame.
NextPreviousKeepOverEmpty(tracked, old) == IF tracked = <<>> THEN old ELSE tracked

\* Line 86: what previousDetections becomes after a successful frame.
NextPrevious(tracked, old) == tracked

\* model.detect resolved with `predictions`: lines 59-88 run to the return.
DetectResolve(predictions) ==
    /\ inflight > 0
    /\ \E timestamp \in Timestamps :
       \E r \in { assignTrackingIds(MapPredictions(predictions, timestamp),
                                     previousDetections, trackingId) } :
           /\ r.counter <= MaxTrackingId
           /\ trackingId' = r.counter
           /\ previousDetections' = NextPrevious(r.list, previousDetections)
           /\ detRet' = [kind |-> "resolved", error |-> "none", value |-> r.list,
                         modelOutcome |-> "returned", input |-> predictions]
           /\ issued' = issued \cup { r.list[i].trackId : i \in DOMAIN r.list }
    /\ inflight' = inflight - 1
    /\ pre' = Snapshot
    /\ UNCHANGED <<model, isLoading, loadPc, loadRet>>

\* A variant of CatchResult for a catch block that rethrows.
CatchResultRethrown == [kind |-> "rejected", error |-> "DetectFailed", value |-> <<>>]

\* What the catch block of detectObjects hands back.
CatchResult == [kind |-> "resolved", error |-> "none", value |-> <<>>]

\* A variant of FailedPrevious for a catch block that forgets the last frame.
FailedPreviousCleared(old) == <<>>

\* Lines 89-92: the catch block does not assign this.previousDetections.
FailedPrevious(old) == old

\* model.detect rejected: the catch block logs and returns [].
DetectReject ==
    /\ inflight > 0
    /\ inflight' = inflight - 1
    /\ previousDetections' = FailedPrevious(previousDetections)
    /\ detRet' = [kind |-> CatchResult.kind, error |-> CatchResult.error,
                  value |-> CatchResult.value,
                  modelOutcome |-> "raised", input |-> <<>>]
    /\ pre' = Snapshot
    /\ UNCHANGED <<model, isLoading, trackingId, loadPc, loadRet, issued>>

TypeOK ==
    /\ model \in {"null", "loaded"}
    /\ isLoading \in BOOLEAN
    /\ trackingId \in 0..MaxTrackingId
    /\ loadPc \in [Callers -> {"idle", "setBackend", "ready", "load"}]
    /\ inflight \in 0..MaxInflight
    /\ Len(previousDetections) <= MaxDet

(***************************************************************************)
(* The ROI monitor: the ROIAlerts component of                             *)
(* src/src/components/ROIAlerts.tsx.  Its state is the zones and alerts    *)
(* hooks and the detectionResults prop; its zone-violation effect runs     *)
(* after every render in which detectionResults or zones changed.          *)
(***************************************************************************)
\* Cap on the number of alerts generated in one behaviour.
MaxAlerts == 11
\* Cap on the number of zones held at once.
MaxZones == 3
\* Cap on the number of frames handed to the component.
MaxDeliveries == 2
\* Cap on the number of zone edits (add, remove, toggle).
MaxEdits == 2

\* prev.slice(0, 9): how many earlier alerts survive a new one.
HistoryKept == 9

\* The ids Date.now().toString() gives to added zones (two calls within one
\* millisecond get the same id).
AddedZoneIds == {"t1", "t2"}

\* Raw predictions whose detections probe the zones: a person inside the
\* restricted zone only, a car on the restricted zone's top-left corner
\* (which lies inside an added zone), and a person inside the monitored zone.
ROIPredictions ==
    { [class |-> "person", bbox |-> <<200 * Scale, 150 * Scale, 40 * Scale, 40 * Scale>>],
      [class |-> "car",    bbox |-> <<90 * Scale, 90 * Scale, 20 * Scale, 20 * Scale>>],
      [class |-> "person", bbox |-> <<390 * Scale, 240 * Scale, 20 * Scale, 20 * Scale>>] }

\* The detection lists the parent may hand down as detectionResults.
ROIFrames ==
    { MapPredictions(f, timestamp) :
        f \in SeqsUpTo(ROIPredictions, MaxDet), timestamp \in Timestamps }

VARIABLES
    zones,             \* the zones state hook
    alerts,            \* the alerts state hook
    detectionResults,  \* the detectionResults prop
    effectPending,     \* the violation effect is due (its dependencies changed)
    alertSrc,          \* for each held alert, the detection and zone it came from
    alertTotal,        \* number of alerts generated so far
    frameEvals,        \* how often the effect has run on the current frame
    frameAlerts,       \* number of alerts generated for the current frame
    violationsOf,      \* per zone id: alerts generated for the zone of that id
    deliveries,        \* number of frames handed down so far
    edits,             \* number of zone edits so far
    probe              \* the last membership test made on its own, and its answer

roiVars == <<zones, alerts, detectionResults, effectPending, alertSrc,
             alertTotal, frameEvals, frameAlerts, violationsOf, deliveries,
             edits, probe>>

\* The two zones of the useState initialiser (lines 25-44).
InitialZones ==
    << [id |-> "1", name |-> "Restricted Area", type |-> "restricted",
        x |-> 100, y |-> 100, width |-> 200, height |-> 150,
        alertCount |-> 0, isActive |-> TRUE],
       [id |-> "2", name |-> "Monitoring Zone", type |-> "monitored",
        x |-> 350, y |-> 200, width |-> 180, height |-> 120,
        alertCount |-> 0, isActive |-> TRUE] >>

ZoneIds == {"1", "2"} \cup AddedZoneIds

NoProbe == [detection |-> <<>>, zone |-> <<>>, inside |-> FALSE]

ROIInit ==
    /\ zones = InitialZones
    /\ alerts = <<>>
    /\ detectionResults = <<>>
    /\ effectPending = TRUE
    /\ alertSrc = <<>>
    /\ alertTotal = 0
    /\ frameEvals = "never"
    /\ frameAlerts = 0
    /\ violationsOf = [id \in ZoneIds |-> 0]
    /\ deliveries = 0
    /\ edits = 0
    /\ probe = NoProbe

\* A variant of IsInZone with strict comparisons (boundary excluded).
IsInZoneStrict(detection, zone) ==
    /\ 2 * detection.x + detection.width > 2 * zone.x
    /\ 2 * detection.x + detection.width < 2 * (zone.x + zone.width)
    /\ 2 * detection.y + detection.height > 2 * zone.y
    /\ 2 * detection.y + detection.height < 2 * (zone.y + zone.height)

\* Lines 64-74: detectionCenter = (x + width/2, y + height/2) lies in the
\* closed rectangle of the zone.  Both sides are doubled to stay in integers.
IsInZone(detection, zone) ==
    /\ 2 * detection.x + detection.width >= 2 * zone.x
    /\ 2 * detection.x + detection.width <= 2 * (zone.x + zone.width)
    /\ 2 * detection.y + detection.height >= 2 * zone.y
    /\ 2 * detection.y + detection.height <= 2 * (zone.y + zone.height)

\* A variant of Evaluated without the early return for inactive zones.
EvaluatedAlways(zone) == TRUE

\* Line 62: the zone is evaluated at all.
Evaluated(zone) == zone.isActive

\* A variant of AlertingType that lets every zone type raise alerts.
AlertingTypeAny(zone) == TRUE

\* Line 76: the zone type that raises alerts.
AlertingType(zone) == zone.type = "restricted"

\* Lines 62-76: the pair (detection, zone) raises an alert.
Violates(detection, zone) ==
    /\ Evaluated(zone)
    /\ IsInZone(detection, zone)
    /\ AlertingType(zone)

\* Lines 77-83: the alert record; timestamp is the arrival number.
NewAlert(detection, zone, serial) ==
    [ zoneName   |-> zone.name,
      objectType |-> detection.label,
      timestamp  |-> serial,
      severity   |-> "high" ]

Min(a, b) == IF a <= b THEN a ELSE b

\* A variant of Push that keeps one earlier entry too many.
PushKeepTen(entry, prev) ==
    <<entry>> \o SubSeq(prev, 1, Min(Len(prev), HistoryKept + 1))

\* Line 85: [newAlert, ...prev.slice(0, 9)].
Push(entry, prev) == <<entry>> \o SubSeq(prev, 1, Min(Len(prev), HistoryKept))

\* A variant of Bump that increments every zone.
BumpAll(prev, zoneId) ==
    [ i \in DOMAIN prev |-> [prev[i] EXCEPT !.alertCount = @ + 1] ]

\* Lines 88-90: the setZones updater, applied to the latest zones.
Bump(prev, zoneId) ==
    [ i \in DOMAIN prev |->
        IF prev[i].id = zoneId THEN [prev[i] EXCEPT !.alertCount = @ + 1]
        ELSE prev[i] ]

\* The (detection, zone) pairs in the order of the two nested forEach loops,
\* zs being the zones the effect closed over.
RECURSIVE PairsFrom(_, _, _, _)
PairsFrom(results, zs, i, j) ==
    IF i > Len(results) THEN <<>>
    ELSE IF j > Len(zs) THEN PairsFrom(results, zs, i + 1, 1)
    ELSE <<[detection |-> results[i], zone |-> zs[j]]>>
            \o PairsFrom(results, zs, i, j + 1)

ViolatingPairs(results, zs) ==
    SelectSeq(PairsFrom(results, zs, 1, 1),
              LAMBDA p : Violates(p.detection, p.zone))

\* What is remembered of the pair an alert came from.
Source(pair) ==
    [ label      |-> pair.detection.label,
      zoneId     |-> pair.zone.id,
      zoneName   |-> pair.zone.name,
      zoneType   |-> pair.zone.type,
      zoneActive |-> pair.zone.isActive ]

\* The queued setAlerts / setZones updaters of one effect run, applied in
\* order to the state st = [zones, alerts, alertSrc, alertTotal].
RECURSIVE ApplyViolations(_, _, _)
ApplyViolations(pairs, k, st) ==
    IF k > Len(pairs) THEN st
    ELSE ApplyViolations(pairs, k + 1,
            [ zones      |-> Bump(st.zones, pairs[k].zone.id),
              alerts     |-> Push(NewAlert(pairs[k].detection, pairs[k].zone,
                                           st.alertTotal + 1), st.alerts),
              alertSrc   |-> Push(Source(pairs[k]), st.alertSrc),
              alertTotal |-> st.alertTotal + 1 ])

\* Lines 59-94: one run of the zone-violation effect.  Every violation
\* replaces the zones array, which is a dependency of the effect, so a run
\* that found a violation makes the effect due again.
RunEffect ==
    /\ effectPending
    /\ \E pairs \in { ViolatingPairs(detectionResults, zones) } :
        /\ alertTotal + Len(pairs) <= MaxAlerts
        /\ \E st \in { ApplyViolations(pairs, 1,
                          [zones |-> zones, alerts |-> alerts,
                           alertSrc |-> alertSrc, alertTotal |-> alertTotal]) } :
            /\ zones' = st.zones
            /\ alerts' = st.alerts
            /\ alertSrc' = st.alertSrc
            /\ alertTotal' = st.alertTotal
        /\ effectPending' = (pairs # <<>>)
        /\ frameAlerts' = frameAlerts + Len(pairs)
        /\ violationsOf' =
              [id \in ZoneIds |->
                 violationsOf[id]
                   + Cardinality({k \in DOMAIN pairs : pairs[k].zone.id = id})]
    /\ frameEvals' = IF frameEvals = "never" THEN "once" ELSE "repeated"
    /\ UNCHANGED <<detectionResults, deliveries, edits, probe>>

\* The parent hands down a new detectionResults array.
Deliver(frame) ==
    /\ deliveries < MaxDeliveries
    /\ deliveries' = deliveries + 1
    /\ detectionResults' = frame
    /\ effectPending' = TRUE
    /\ frameEvals' = "never"
    /\ frameAlerts' = 0
    /\ UNCHANGED <<zones, alerts, alertSrc, alertTotal, violationsOf, edits, probe>>

\* Lines 96-107.
addZone(newId) ==
    /\ edits < MaxEdits
    /\ Len(zones) < MaxZones
    /\ zones' = Append(zones,
                  [id |-> newId, name |-> <<"Zone", Len(zones) + 1>>,
                   type |-> "monitored",
                   x |-> 50, y |-> 50, width |-> 150, height |-> 100,
                   alertCount |-> 0, isActive |-> TRUE])
    /\ effectPending' = TRUE
    /\ edits' = edits + 1
    /\ UNCHANGED violationsOf
    /\ UNCHANGED <<alerts, detectionResults, alertSrc, alertTotal, frameEvals,
                   frameAlerts, deliveries, probe>>

\* Lines 109-111, from the remove button of a rendered zone.
removeZone(zoneId) ==
    /\ edits < MaxEdits
    /\ \E i \in DOMAIN zones : zones[i].id = zoneId
    /\ zones' = SelectSeq(zones, LAMBDA z : z.id # zoneId)
    /\ effectPending' = TRUE
    /\ edits' = edits + 1
    /\ violationsOf' = [violationsOf EXCEPT ![zoneId] = 0]
    /\ UNCHANGED <<alerts, detectionResults, alertSrc, alertTotal, frameEvals,
                   frameAlerts, deliveries, probe>>

\* Lines 113-117, from the toggle button of a rendered zone.
toggleZone(zoneId) ==
    /\ edits < MaxEdits
    /\ \E i \in DOMAIN zones : zones[i].id = zoneId
    /\ zones' = [ i \in DOMAIN zones |->
                    IF zones[i].id = zoneId
                    THEN [zones[i] EXCEPT !.isActive = ~@]
                    ELSE zones[i] ]
    /\ effectPending' = TRUE
    /\ edits' = edits + 1
    /\ UNCHANGED violationsOf
    /\ UNCHANGED <<alerts, detectionResults, alertSrc, alertTotal, frameEvals,
                   frameAlerts, deliveries, probe>>


\* Centers around every edge and corner of the restricted zone, in steps of
\* half a pixel across x (widths 20 and 21) and of one pixel across y.
ProbePredictions ==
    { [class |-> "person", bbox |-> <<x * Scale, y * Scale, w * Scale, 20 * Scale>>] :
        x \in {89, 90, 91, 289, 290, 291}, y \in {89, 90, 91, 239, 240, 241},
        w \in {20, 21} }

\* The membership test of lines 64-74 on its own, on one detection and zone.
Probe(prediction, zone) ==
    /\ \E detection \in { MakeDetection(prediction, 0, timestamp) : timestamp \in Timestamps } :
          probe' = [detection |-> detection, zone |-> zone,
                    inside |-> IsInZone(detection, zone)]
    /\ UNCHANGED <<zones, alerts, detectionResults, effectPending, alertSrc,
                   alertTotal, frameEvals, frameAlerts, violationsOf,
                   deliveries, edits>>

(***************************************************************************)
(* The detection panel: the DetectionModes component of                    *)
(* src/src/components/DetectionModes.tsx (lines 236-573), mounted by App   *)
(* while the detection tab is shown.  A handler closes over the state of   *)
(* the render it was created in, so every suspended call and every queued  *)
(* callback carries the streamActive value it captured.                    *)
(***************************************************************************)
\* Cap on the camera streams requested and not yet stopped.
MaxStreams == 2

\* What model.detect may return for the uploaded image or a video frame.
UIPredictions == { [class |-> "person", bbox |-> <<0, 0, 20 * Scale, 20 * Scale>>] }
UIFrames == SeqsUpTo(UIPredictions, 1)

VARIABLES
    mounted,      \* App renders DetectionModes (activeTab === 'detection')
    hooks,        \* the useState hooks of the mounted component
    currentMode,  \* App's currentMode hook, written through onModeChange
    srcObject,    \* videoRef.current.srcObject holds a camera stream
    callbacks,    \* callbacks the browser has queued: image load, animation frame
    camPending,   \* the startStreamDetection calls awaiting getUserMedia
    liveTracks,   \* camera streams obtained whose tracks have not been stopped
    awaiting,     \* who awaits each detectObjects call in flight
    effectLive,   \* the load in progress was started by the mounted component
    notices,      \* the texts shown to the user with alert()
    failures,     \* the setup failures that have happened
    outcomes,     \* how the handler that met each setup failure settled
    stopClean     \* stopStreamDetection ran; no stream or detection call started since

uiVars == <<mounted, hooks, currentMode, srcObject, callbacks, camPending,
            liveTracks, awaiting, effectLive, notices, failures, outcomes,
            stopClean>>

\* The ROI monitor's own state: everything of it but App's detectionResults.
roiOwn == <<zones, alerts, effectPending, alertSrc, alertTotal, frameEvals,
            frameAlerts, violationsOf, deliveries, edits, probe>>

\* Lines 248-253: the initial values of the hooks.
FreshHooks ==
    [ activeMode     |-> "image",
      isProcessing   |-> FALSE,
      isModelLoading |-> FALSE,
      uploadedFile   |-> FALSE,
      detections     |-> <<>>,
      streamActive   |-> FALSE ]

UIInit ==
    /\ mounted = FALSE
    /\ hooks = FreshHooks
    /\ currentMode = "image"
    /\ srcObject = FALSE
    /\ callbacks = {}
    /\ camPending = <<>>
    /\ liveTracks = 0
    /\ awaiting = <<>>
    /\ effectLive = FALSE
    /\ notices = {}
    /\ failures = {}
    /\ outcomes = {}
    /\ stopClean = FALSE

\* Lines 493-503: the <video> element exists, so videoRef.current is set.
VideoRendered(m, h) == m /\ h.activeMode = "stream" /\ h.streamActive

ImageLoad == [kind |-> "load", streamActive |-> FALSE]
FrameCallback(closure) == [kind |-> "frame", streamActive |-> closure]

Without(seq, i) == [ j \in 1..(Len(seq) - 1) |-> IF j < i THEN seq[j] ELSE seq[j + 1] ]

\* The component is gone: its suspended calls run on, but their state
\* setters do nothing and their refs are null.
Orphaned(seq) == [ j \in DOMAIN seq |-> [seq[j] EXCEPT !.live = FALSE] ]

\* Lines 265-267: the effect's catch block logs, so its promise resolves.
EffectCatchKind == "resolved"

\* Lines 348-351: the catch block of startStreamDetection logs and resets
\* streamActive, so its promise resolves.
StartCatchKind == "resolved"

\* App mounts the component; the load effect (lines 260-273) runs, calling
\* objectDetector.loadModel as caller c.  An early return of loadModel lets
\* the effect reach its finally block at once.
Mount(c) ==
    /\ ~mounted
    /\ mounted' = TRUE
    /\ IF LoadGuard
       THEN /\ LoadModelReturn(c)
            /\ hooks' = FreshHooks
            /\ UNCHANGED effectLive
       ELSE /\ LoadModelBegin(c)
            /\ hooks' = [FreshHooks EXCEPT !.isModelLoading = TRUE]
            /\ effectLive' = TRUE
    /\ UNCHANGED <<currentMode, srcObject, callbacks, camPending, liveTracks,
                   awaiting, notices, failures, outcomes, stopClean,
                   detectionResults>>

\* App unmounts the component (another tab is chosen): the cleanup of lines
\* 276-282 cancels the animation frame and nothing else.
Unmount ==
    /\ mounted
    /\ mounted' = FALSE
    /\ hooks' = FreshHooks
    /\ srcObject' = FALSE
    /\ callbacks' = {}
    /\ camPending' = Orphaned(camPending)
    /\ awaiting' = Orphaned(awaiting)
    /\ effectLive' = FALSE
    /\ UNCHANGED <<vars, currentMode, liveTracks, notices, failures, outcomes,
                   stopClean, detectionResults>>

\* The finally block of the effect (line 268).
EffectFinally == IF effectLive THEN [hooks EXCEPT !.isModelLoading = FALSE] ELSE hooks

\* objectDetector.loadModel resolved: the effect runs its finally block.
EffectLoadOk(c) ==
    /\ LoadOk(c)
    /\ hooks' = EffectFinally
    /\ effectLive' = FALSE
    /\ UNCHANGED <<mounted, currentMode, srcObject, callbacks, camPending,
                   liveTracks, awaiting, notices, failures, outcomes, stopClean,
                   detectionResults>>

\* objectDetector.loadModel rejected: catch logs, finally clears the flag.
EffectLoadFail(c) ==
    /\ LoadFail(c)
    /\ hooks' = EffectFinally
    /\ effectLive' = FALSE
    /\ failures' = failures \cup {"modelLoad"}
    /\ outcomes' = outcomes \cup {[failure |-> "modelLoad", kind |-> EffectCatchKind]}
    /\ UNCHANGED <<mounted, currentMode, srcObject, callbacks, camPending,
                   liveTracks, awaiting, notices, stopClean, detectionResults>>

\* Line 406: a mode button.  Leaving stream mode removes the <video>
\* element, leaving image mode the <img>; entering image mode with a file
\* uploaded renders a new <img>, which loads.
setActiveMode(mode) ==
    /\ mounted
    /\ mode # hooks.activeMode
    /\ hooks' = [hooks EXCEPT !.activeMode = mode]
    /\ srcObject' = (srcObject /\ VideoRendered(mounted, hooks'))
    /\ callbacks' = IF mode = "image" /\ hooks.uploadedFile
                    THEN callbacks \cup {ImageLoad}
                    ELSE callbacks \ {ImageLoad}
    /\ UNCHANGED <<vars, mounted, currentMode, camPending, liveTracks, awaiting,
                   effectLive, notices, failures, outcomes, stopClean,
                   detectionResults>>

\* Lines 284-294: a file is chosen and read; the <img> gets it as its src.
handleFileUpload ==
    /\ mounted
    /\ hooks.activeMode = "image"
    /\ hooks' = [hooks EXCEPT !.uploadedFile = TRUE]
    /\ callbacks' = callbacks \cup {ImageLoad}
    /\ UNCHANGED <<vars, mounted, currentMode, srcObject, camPending, liveTracks,
                   awaiting, effectLive, notices, failures, outcomes, stopClean,
                   detectionResults>>

\* Lines 296-304: processImage up to its await.
processImage ==
    IF ModelMissing
    THEN UNCHANGED <<vars, hooks, awaiting, stopClean>>
    ELSE /\ DetectBegin
         /\ hooks' = [hooks EXCEPT !.isProcessing = TRUE]
         /\ awaiting' = Append(awaiting, [kind |-> "image",
                                          streamActive |-> hooks.streamActive,
                                          live |-> TRUE])
         /\ stopClean' = FALSE

\* Lines 314-320: processVideoFrame up to its await, run by a closure that
\* captured `closure` as streamActive and whose videoRef.current is set
\* when hasVideo.
processVideoFrame(closure, hasVideo) ==
    IF hasVideo /\ ~ModelMissing /\ closure
    THEN /\ DetectBegin
         /\ awaiting' = Append(awaiting, [kind |-> "stream",
                                          streamActive |-> closure,
                                          live |-> TRUE])
         /\ stopClean' = FALSE
    ELSE UNCHANGED <<vars, awaiting, stopClean>>

\* The browser runs a queued callback: the onLoad handler of the <img>
\* (lines 444-447) or the animation frame requested at line 328.
BrowserCallback(cb) ==
    /\ cb \in callbacks
    /\ callbacks' = callbacks \ {cb}
    /\ IF cb.kind = "load"
       THEN processImage
       ELSE /\ processVideoFrame(cb.streamActive, VideoRendered(mounted, hooks))
            /\ UNCHANGED hooks
    /\ UNCHANGED <<mounted, currentMode, srcObject, camPending, liveTracks,
                   effectLive, notices, failures, outcomes, detectionResults>>

\* The continuation of the i-th awaited detectObjects call, which handed
\* back `results`: lines 305-310 for an image, lines 321-329 for a frame.
Continue(i, results) ==
    /\ awaiting' = Without(awaiting, i)
    /\ detectionResults' = results
    /\ hooks' = IF awaiting[i].live
                THEN [hooks EXCEPT !.detections = results,
                                   !.isProcessing =
                                       IF awaiting[i].kind = "image" THEN FALSE ELSE @]
                ELSE hooks
    /\ callbacks' = IF awaiting[i].kind = "stream" /\ awaiting[i].streamActive
                    THEN callbacks \cup {FrameCallback(awaiting[i].streamActive)}
                    ELSE callbacks
    /\ UNCHANGED <<mounted, currentMode, srcObject, camPending, liveTracks,
                   effectLive, notices, failures, outcomes, stopClean>>

\* model.detect resolved for the i-th awaited call.
DetectionResolved(i, predictions) ==
    /\ i \in DOMAIN awaiting
    /\ DetectResolve(predictions)
    /\ Continue(i, detRet'.value)

\* model.detect rejected for the i-th awaited call: detectObjects hands
\* back the empty list.
DetectionRejected(i) ==
    /\ i \in DOMAIN awaiting
    /\ DetectReject
    /\ Continue(i, detRet'.value)

\* Lines 332-342: the Start Camera button, up to the await of getUserMedia.
startStreamDetection ==
    /\ mounted
    /\ hooks.activeMode = "stream"
    /\ ~hooks.streamActive
    /\ IF ModelMissing
       THEN /\ notices' = notices \cup {"Detection model is still loading. Please wait..."}
            /\ UNCHANGED <<hooks, currentMode, camPending, stopClean>>
       ELSE /\ Len(camPending) + liveTracks < MaxStreams
            /\ hooks' = [hooks EXCEPT !.streamActive = TRUE]
            /\ currentMode' = "stream"
            /\ camPending' = Append(camPending, [streamActive |-> hooks.streamActive,
                                                 live |-> TRUE])
            /\ stopClean' = FALSE
            /\ UNCHANGED notices
    /\ UNCHANGED <<vars, mounted, srcObject, callbacks, liveTracks, awaiting,
                   effectLive, failures, outcomes, detectionResults>>

\* getUserMedia resolved for the i-th suspended call (lines 343-347): the
\* stream goes to the <video> element when there is one, and the frame loop
\* is entered through the processVideoFrame of the render that was clicked.
GetUserMediaOk(i) ==
    /\ i \in DOMAIN camPending
    /\ camPending' = Without(camPending, i)
    /\ liveTracks' = liveTracks + 1
    /\ IF camPending[i].live /\ VideoRendered(mounted, hooks)
       THEN /\ srcObject' = TRUE
            /\ processVideoFrame(camPending[i].streamActive, TRUE)
       ELSE UNCHANGED <<vars, srcObject, awaiting, stopClean>>
    /\ UNCHANGED <<mounted, hooks, currentMode, callbacks, effectLive, notices,
                   failures, outcomes, detectionResults>>

\* getUserMedia rejected for the i-th suspended call (lines 348-351).
GetUserMediaFail(i) ==
    /\ i \in DOMAIN camPending
    /\ camPending' = Without(camPending, i)
    /\ hooks' = IF camPending[i].live
                THEN [hooks EXCEPT !.streamActive = FALSE]
                ELSE hooks
    /\ srcObject' = (srcObject /\ VideoRendered(mounted, hooks'))
    /\ failures' = failures \cup {"camera"}
    /\ outcomes' = outcomes \cup {[failure |-> "camera", kind |-> StartCatchKind]}
    /\ UNCHANGED <<vars, mounted, currentMode, callbacks, liveTracks, awaiting,
                   effectLive, notices, stopClean, detectionResults>>

\* Lines 354-368: the Stop Stream button.
stopStreamDetection ==
    /\ mounted
    /\ hooks.activeMode = "stream"
    /\ hooks.streamActive
    /\ hooks' = [hooks EXCEPT !.streamActive = FALSE, !.detections = <<>>]
    /\ detectionResults' = <<>>
    /\ callbacks' = { cb \in callbacks : cb.kind # "frame" }
    /\ liveTracks' = IF srcObject THEN liveTracks - 1 ELSE liveTracks
    /\ srcObject' = FALSE
    /\ stopClean' = TRUE
    /\ UNCHANGED <<vars, mounted, currentMode, camPending, awaiting, effectLive,
                   notices, failures, outcomes>>

Modes == {"image", "video", "stream"}

(***************************************************************************)
(* The adapter's record construction on its own: the predictions.map       *)
(* callback of src/src/utils/objectDetection.ts (lines 61-82) applied to   *)
(* one raw prediction.                                                     *)
(***************************************************************************)
\* Raw boxes around the cases of the callback's arithmetic: whole and
\* fractional coordinates (1 is 1/Scale px, 21 is 21/Scale px), zero
\* dimensions, and the box x=100, y=100, width=50, height=100.
AdapterBoxes ==
    { <<x, y, width, height>> :
        x \in {0, 1, 100 * Scale}, y \in {0, 1, 100 * Scale},
        width \in {0, 21, 50 * Scale}, height \in {0, 21, 100 * Scale} }

AdapterPredictions == [class : Labels, bbox : AdapterBoxes]

VARIABLES
    adapted          \* the last raw prediction mapped and the record made of it

adapterVars == <<adapted>>

NoAdapted == [prediction |-> <<>>, detection |-> <<>>]

AdapterInit == adapted = NoAdapted

\* Lines 61-82: predictions.map((prediction, index) => ...) on one element.
Adapt(prediction, index, timestamp) ==
    adapted' = [prediction |-> prediction,
                detection  |-> MakeDetection(prediction, index, timestamp)]

(***************************************************************************)
(* The tracking panel: the ObjectTracking component of                     *)
(* src/src/components/ObjectTracking.tsx, which receives App's             *)
(* detectionResults and keeps one entry per detection of the last          *)
(* non-empty frame.  Its values are JavaScript values: the id of a         *)
(* detection is a string and a trackId a number, and === tells them apart, *)
(* so an id is kept with its type.                                         *)
(***************************************************************************)
\* Largest value of new Date() (the clock is unbounded in the code).
MaxNow == 2
\* Line 46: slice(-10) keeps the last ten points.
TrajectoryKept == 10

Str(v) == [type |-> "string", value |-> v]
Num(n) == [type |-> "number", value |-> n]

\* a === b on ids: same type and same value.
StrictEquals(a, b) == a.type = b.type /\ a.value = b.value

\* A detection as App hands it down: the adapter's record, its id the string
\* of line 69 of objectDetection.ts, its trackId set by assignTrackingIds
\* (always 1 or more).
Received(detection, trackId) ==
    [detection EXCEPT !.id = Str(detection.id), !.trackId = trackId]

TrackingPredictions ==
    { [class |-> "person", bbox |-> <<0, 0, 20 * Scale, 20 * Scale>>],
      [class |-> "car", bbox |-> <<60 * Scale, 80 * Scale, 20 * Scale, 20 * Scale>>] }

\* The trackIds of the frames handed down: as many tracks as a frame holds.
TrackingIds == 1..MaxDet

\* The frames detectObjects may hand on: up to MaxDet detections, each with
\* a trackId the detector has issued.
TrackingFrames ==
    { [i \in DOMAIN frame |-> Received(frame[i], ids[i])] :
        <<frame, ids>> \in
            UNION { { <<MapPredictions(f, timestamp), track>> :
                        f \in [1..k -> TrackingPredictions],
                        track \in [1..k -> TrackingIds],
                        timestamp \in Timestamps } : k \in 0..MaxDet } }

VARIABLES
    trackedObjects,  \* the trackedObjects hook
    totalCounts,     \* the totalCounts hook
    clock,           \* the last value new Date() gave
    shown,           \* the detectionResults the effect last ran on
    prevTracked      \* trackedObjects as that run of the effect found it

trackingVars == <<trackedObjects, totalCounts, clock, shown, prevTracked>>

\* Lines 23-29: the initial values of the hooks.
TrackingInit ==
    /\ trackedObjects = <<>>
    /\ totalCounts = [person |-> 0, car |-> 0, bicycle |-> 0, truck |-> 0]
    /\ clock = 0
    /\ shown = <<>>
    /\ prevTracked = <<>>

\* { ...base, ...over }: the properties of both, those of `over` winning.
Spread(base, over) ==
    [ k \in DOMAIN base \cup DOMAIN over |->
        IF k \in DOMAIN over THEN over[k] ELSE base[k] ]

\* seq.slice(-n)
LastN(seq, n) ==
    IF Len(seq) <= n THEN seq ELSE SubSeq(seq, Len(seq) - n + 1, Len(seq))

\* Line 37: trackedObjects.find(obj => obj.id === detection.trackId ||
\* obj.id === index + 1), as the position found, or 0 for undefined.
FindExisting(objects, detection, index) ==
    LET hits == { j \in DOMAIN objects :
                    \/ StrictEquals(objects[j].id, Num(detection.trackId))
                    \/ StrictEquals(objects[j].id, Num(index + 1)) }
    IN  IF hits = {} THEN 0 ELSE CHOOSE j \in hits : \A k \in hits : j <= k

\* Lines 47 and 57: the point added to a trajectory.
Point(detection, now) == [x |-> detection.x, y |-> detection.y, timestamp |-> now]

\* Lines 40-49: the entry of a detection that continues existingObject.
Continued(existingObject, detection, now) ==
    Spread(Spread(existingObject, detection),
           [ lastSeen   |-> now,
             frameCount |-> existingObject.frameCount + 1,
             trajectory |-> Append(LastN(existingObject.trajectory, TrajectoryKept),
                                   Point(detection, now)) ])

\* Lines 51-58: the entry of a detection met for the first time; index is
\* 0-based and `detection.trackId || index + 1` takes index + 1 for a
\* trackId of 0.
Created(detection, index, now) ==
    Spread(Spread([id |-> Num(IF detection.trackId # 0 THEN detection.trackId
                                                          ELSE index + 1)],
                  detection),
           [ firstSeen  |-> now,
             lastSeen   |-> now,
             frameCount |-> 1,
             trajectory |-> <<Point(detection, now)>> ])

\* Lines 36-60: detectionResults.map over the frame.
UpdatedObjects(objects, detectionResults_, now) ==
    [ i \in DOMAIN detectionResults_ |->
        LET j == FindExisting(objects, detectionResults_[i], i - 1)
        IN  IF j # 0 THEN Continued(objects[j], detectionResults_[i], now)
                     ELSE Created(detectionResults_[i], i - 1, now) ]

\* Lines 65-72: the entries counted by label.
Counts(objects) ==
    [ name \in {"person", "car", "bicycle", "truck"} |->
        Cardinality({ i \in DOMAIN objects : objects[i].label = name }) ]

\* Lines 31-75: the effect, run when App hands down `results`; an empty
\* frame leaves both hooks as they are.
TrackingEffect(results, now) ==
    /\ now >= clock
    /\ clock' = now
    /\ shown' = results
    /\ prevTracked' = trackedObjects
    /\ IF results # <<>>
       THEN /\ trackedObjects' = UpdatedObjects(trackedObjects, results, now)
            /\ totalCounts' = Counts(trackedObjects')
       ELSE UNCHANGED <<trackedObjects, totalCounts>>

(***************************************************************************)
(* Specifications: one per component, the others standing still.           *)
(***************************************************************************)
allVars == <<vars, roiVars, uiVars, adapterVars, trackingVars>>

\* Every component freshly constructed.
InitAll == Init /\ ROIInit /\ UIInit /\ AdapterInit /\ TrackingInit

\* The detector on its own: any caller may call loadModel or detectObjects
\* at any time.
Next ==
    \/ \E c \in Callers : LoadModelReturn(c) /\ UNCHANGED <<roiVars, uiVars, adapterVars, trackingVars>>
    \/ \E c \in Callers : LoadModelBegin(c) /\ UNCHANGED <<roiVars, uiVars, adapterVars, trackingVars>>
    \/ \E c \in Callers : SetBackendOk(c) /\ UNCHANGED <<roiVars, uiVars, adapterVars, trackingVars>>
    \/ \E c \in Callers : ReadyOk(c) /\ UNCHANGED <<roiVars, uiVars, adapterVars, trackingVars>>
    \/ \E c \in Callers : LoadOk(c) /\ UNCHANGED <<roiVars, uiVars, adapterVars, trackingVars>>
    \/ \E c \in Callers : LoadFail(c) /\ UNCHANGED <<roiVars, uiVars, adapterVars, trackingVars>>
    \/ DetectThrow /\ UNCHANGED <<roiVars, uiVars, adapterVars, trackingVars>>
    \/ DetectBegin /\ UNCHANGED <<roiVars, uiVars, adapterVars, trackingVars>>
    \/ \E predictions \in Frames : DetectResolve(predictions) /\ UNCHANGED <<roiVars, uiVars, adapterVars, trackingVars>>
    \/ DetectReject /\ UNCHANGED <<roiVars, uiVars, adapterVars, trackingVars>>

Spec == InitAll /\ [][Next]_allVars

\* The ROI monitor on its own: the parent hands frames down, the user edits
\* zones, React runs the effect when it is due.
ROINext ==
    \/ RunEffect /\ UNCHANGED <<vars, uiVars, adapterVars, trackingVars>>
    \/ \E frame \in ROIFrames : Deliver(frame) /\ UNCHANGED <<vars, uiVars, adapterVars, trackingVars>>
    \/ \E newId \in AddedZoneIds : addZone(newId) /\ UNCHANGED <<vars, uiVars, adapterVars, trackingVars>>
    \/ \E zoneId \in ZoneIds : removeZone(zoneId) /\ UNCHANGED <<vars, uiVars, adapterVars, trackingVars>>
    \/ \E zoneId \in ZoneIds : toggleZone(zoneId) /\ UNCHANGED <<vars, uiVars, adapterVars, trackingVars>>

SpecROI == InitAll /\ [][ROINext]_allVars

\* The membership test on its own, over the probe inputs.
ZoneNext ==
    \E prediction \in ProbePredictions :
        \E i \in DOMAIN InitialZones :
            Probe(prediction, InitialZones[i]) /\ UNCHANGED <<vars, uiVars, adapterVars, trackingVars>>

SpecZone == InitAll /\ [][ZoneNext]_allVars

\* The record construction on its own, over the adapter inputs.
AdapterNext ==
    \E prediction \in AdapterPredictions :
        \E index \in 0..(MaxDet - 1) : \E timestamp \in Timestamps :
            Adapt(prediction, index, timestamp)
                /\ UNCHANGED <<vars, roiVars, uiVars, trackingVars>>

SpecAdapter == InitAll /\ [][AdapterNext]_allVars

\* The tracking panel on its own: App hands frames down at any time.
TrackingNext ==
    \E results \in TrackingFrames : \E now \in 1..MaxNow :
        TrackingEffect(results, now) /\ UNCHANGED <<vars, roiVars, uiVars, adapterVars>>

SpecTracking == InitAll /\ [][TrackingNext]_allVars

\* The detection panel driving the detector: the user, App, the camera and
\* the model collaborator act in any order.
UINext ==
    \/ \E c \in Callers : Mount(c) /\ UNCHANGED <<roiOwn, adapterVars, trackingVars>>
    \/ Unmount /\ UNCHANGED <<roiOwn, adapterVars, trackingVars>>
    \/ \E c \in Callers : SetBackendOk(c) /\ UNCHANGED <<roiVars, uiVars, adapterVars, trackingVars>>
    \/ \E c \in Callers : ReadyOk(c) /\ UNCHANGED <<roiVars, uiVars, adapterVars, trackingVars>>
    \/ \E c \in Callers : EffectLoadOk(c) /\ UNCHANGED <<roiOwn, adapterVars, trackingVars>>
    \/ \E c \in Callers : EffectLoadFail(c) /\ UNCHANGED <<roiOwn, adapterVars, trackingVars>>
    \/ \E mode \in Modes : setActiveMode(mode) /\ UNCHANGED <<roiOwn, adapterVars, trackingVars>>
    \/ handleFileUpload /\ UNCHANGED <<roiOwn, adapterVars, trackingVars>>
    \/ \E cb \in callbacks : BrowserCallback(cb) /\ UNCHANGED <<roiOwn, adapterVars, trackingVars>>
    \/ \E i \in DOMAIN awaiting : \E predictions \in UIFrames :
          DetectionResolved(i, predictions) /\ UNCHANGED <<roiOwn, adapterVars, trackingVars>>
    \/ \E i \in DOMAIN awaiting : DetectionRejected(i) /\ UNCHANGED <<roiOwn, adapterVars, trackingVars>>
    \/ startStreamDetection /\ UNCHANGED <<roiOwn, adapterVars, trackingVars>>
    \/ \E i \in DOMAIN camPending : GetUserMediaOk(i) /\ UNCHANGED <<roiOwn, adapterVars, trackingVars>>
    \/ \E i \in DOMAIN camPending : GetUserMediaFail(i) /\ UNCHANGED <<roiOwn, adapterVars, trackingVars>>
    \/ stopStreamDetection /\ UNCHANGED <<roiOwn, adapterVars, trackingVars>>

SpecUI == InitAll /\ [][UINext]_allVars

\* The steps the environment owes the panel: a pending promise settles
\* (tf.setBackend, tf.ready, cocoSsd.load, getUserMedia, model.detect) and
\* the browser runs a queued callback.  The user's clicks and App's tab
\* switches are owed to nobody.  Only the settlements the property assumes
\* are listed: the load succeeds, the camera is granted, model.detect returns.
UISettles ==
    \/ \E c \in Callers : SetBackendOk(c) /\ UNCHANGED <<roiVars, uiVars, adapterVars, trackingVars>>
    \/ \E c \in Callers : ReadyOk(c) /\ UNCHANGED <<roiVars, uiVars, adapterVars, trackingVars>>
    \/ \E c \in Callers : EffectLoadOk(c) /\ UNCHANGED <<roiOwn, adapterVars, trackingVars>>
    \/ \E cb \in callbacks : BrowserCallback(cb) /\ UNCHANGED <<roiOwn, adapterVars, trackingVars>>
    \/ \E i \in DOMAIN awaiting : \E predictions \in UIFrames :
          DetectionResolved(i, predictions) /\ UNCHANGED <<roiOwn, adapterVars, trackingVars>>
    \/ \E i \in DOMAIN camPending : GetUserMediaOk(i) /\ UNCHANGED <<roiOwn, adapterVars, trackingVars>>

\* The panel with every pending promise eventually settled and every queued
\* callback eventually run.
SpecUIFair == InitAll /\ [][UINext]_allVars /\ WF_allVars(UISettles)

(***************************************************************************)
(* Vocabulary of the properties.  The last settled detectObjects call is   *)
(* described by detRet (what it handed back) and pre (the detector state   *)
(* it started from), so a property of "two consecutive frames" is a        *)
(* property of pre.previousDetections and detRet.value.                    *)
(***************************************************************************)
\* The last settled detectObjects call returned a tracked frame.
DetectSucceeded == detRet.kind = "resolved" /\ detRet.modelOutcome = "returned"

\* The frame the tracker held when that call settled, and the frame it returned.
earlierFrame == pre.previousDetections
laterFrame == detRet.value

\* Square of the Euclidean distance between two detections' centers.
SqDistance(a, b) ==
    LET dx == a.centerX - b.centerX
        dy == a.centerY - b.centerY
    IN  dx * dx + dy * dy

\* The positions of the earlier frame's detections that carry d's label.
SameLabel(d) == { j \in DOMAIN earlierFrame : earlierFrame[j].label = d.label }

\* The same-label earlier detections nearest to d.
Nearest(d) ==
    { j \in SameLabel(d) :
        \A k \in SameLabel(d) :
            SqDistance(d, earlierFrame[j]) <= SqDistance(d, earlierFrame[k]) }

\* d has a same-label earlier detection less than 100 px away.
HasNear(d) ==
    \E j \in SameLabel(d) : SqDistance(d, earlierFrame[j]) < 100 * 100

\* d's trackId was allocated by the call that returned it.
Fresh(d) ==
    /\ d.trackId > pre.trackingId
    /\ d.trackId <= trackingId
    /\ d.trackId \notin pre.issued

\* C1: when the earlier frame holds one detection and the later frame one
\* detection of the same label with its center less than 100 px away, the
\* later detection carries the earlier detection's trackId.
C1_SameTrackWithinThreshold ==
    ( /\ DetectSucceeded
      /\ Len(earlierFrame) = 1
      /\ Len(laterFrame) = 1
      /\ laterFrame[1].label = earlierFrame[1].label
      /\ SqDistance(laterFrame[1], earlierFrame[1]) < 100 * 100 )
    => laterFrame[1].trackId = earlierFrame[1].trackId

\* C1 witness: two single-detection frames of one label, 60 px apart, same id.
C1_Witness ==
    /\ DetectSucceeded
    /\ Len(earlierFrame) = 1
    /\ Len(laterFrame) = 1
    /\ laterFrame[1].label = earlierFrame[1].label
    /\ SqDistance(laterFrame[1], earlierFrame[1]) = 60 * 60
    /\ laterFrame[1].trackId = earlierFrame[1].trackId
    /\ trackingId = pre.trackingId

\* C2: a later-frame detection that has same-label earlier detections, all of
\* them more than 100 px away, gets an id that no earlier call ever assigned.
C2_NewTrackBeyondThreshold ==
    DetectSucceeded =>
        \A i \in DOMAIN laterFrame :
            ( /\ SameLabel(laterFrame[i]) # {}
              /\ \A j \in SameLabel(laterFrame[i]) :
                    SqDistance(laterFrame[i], earlierFrame[j]) > 100 * 100 )
            => /\ laterFrame[i].trackId \notin pre.issued
               /\ \A j \in DOMAIN earlierFrame :
                    laterFrame[i].trackId # earlierFrame[j].trackId

\* C2 witness: a same-label detection more than 100 px from the only earlier
\* one received an id outside the ids issued before.
C2_Witness ==
    /\ DetectSucceeded
    /\ Len(earlierFrame) = 1
    /\ \E i \in DOMAIN laterFrame :
        /\ SameLabel(laterFrame[i]) = {1}
        /\ SqDistance(laterFrame[i], earlierFrame[1]) > 100 * 100
        /\ pre.issued # {}
        /\ laterFrame[i].trackId \notin pre.issued

\* C3: no detection inherits the id of an earlier detection of another label,
\* and a detection without any same-label earlier detection gets a fresh id.
C3_NoCrossLabelMatch ==
    DetectSucceeded =>
        \A i \in DOMAIN laterFrame :
            /\ \A j \in DOMAIN earlierFrame :
                laterFrame[i].trackId = earlierFrame[j].trackId
                    => laterFrame[i].label = earlierFrame[j].label
            /\ SameLabel(laterFrame[i]) = {} => Fresh(laterFrame[i])

\* C3 witness: an earlier detection of another label sits at the very same
\* center, no same-label one exists, and the detection got a fresh id.
C3_Witness ==
    /\ DetectSucceeded
    /\ \E i \in DOMAIN laterFrame :
        /\ SameLabel(laterFrame[i]) = {}
        /\ \E j \in DOMAIN earlierFrame :
            /\ earlierFrame[j].label # laterFrame[i].label
            /\ SqDistance(laterFrame[i], earlierFrame[j]) = 0
            /\ laterFrame[i].trackId # earlierFrame[j].trackId
        /\ Fresh(laterFrame[i])

\* C4: every detection inherits the id of a nearest same-label earlier
\* detection exactly when that nearest distance is strictly below 100 px;
\* at 100 px or more (or with no same-label candidate) its id is fresh.
C4_NearestWithinStrictThreshold ==
    DetectSucceeded =>
        \A i \in DOMAIN laterFrame :
            IF HasNear(laterFrame[i])
            THEN \E j \in Nearest(laterFrame[i]) :
                    laterFrame[i].trackId = earlierFrame[j].trackId
            ELSE Fresh(laterFrame[i])

\* C4 witness: one frame in which a detection chose the nearer of two
\* same-label candidates with different ids, the nearer one coming second,
\* and another detection exactly 100 px from its nearest got a fresh id.
C4_Witness ==
    /\ DetectSucceeded
    /\ \E i \in DOMAIN laterFrame :
        /\ Nearest(laterFrame[i]) = {2}
        /\ SqDistance(laterFrame[i], earlierFrame[1]) < 100 * 100
        /\ earlierFrame[1].label = laterFrame[i].label
        /\ earlierFrame[1].trackId # earlierFrame[2].trackId
        /\ laterFrame[i].trackId = earlierFrame[2].trackId
    /\ \E i \in DOMAIN laterFrame :
        /\ \E j \in Nearest(laterFrame[i]) :
            SqDistance(laterFrame[i], earlierFrame[j]) = 100 * 100
        /\ Fresh(laterFrame[i])

\* C5: two detections of one frame whose nearest same-label candidate within
\* the threshold is the same earlier detection both carry its id, and
\* neither of them consumed a new id.
C5_MatchingNotExclusive ==
    DetectSucceeded =>
        \A i, k \in DOMAIN laterFrame :
            \A j \in DOMAIN earlierFrame :
                ( /\ i # k
                  /\ HasNear(laterFrame[i])
                  /\ HasNear(laterFrame[k])
                  /\ Nearest(laterFrame[i]) = {j}
                  /\ Nearest(laterFrame[k]) = {j} )
                => /\ laterFrame[i].trackId = earlierFrame[j].trackId
                   /\ laterFrame[k].trackId = earlierFrame[j].trackId
                   /\ ~Fresh(laterFrame[i])
                   /\ ~Fresh(laterFrame[k])

\* C5 witness: a frame of two detections at different centers that both
\* carry the id of the only earlier detection; the counter did not move.
C5_Witness ==
    /\ DetectSucceeded
    /\ Len(earlierFrame) = 1
    /\ Len(laterFrame) = 2
    /\ SqDistance(laterFrame[1], laterFrame[2]) # 0
    /\ laterFrame[1].trackId = earlierFrame[1].trackId
    /\ laterFrame[2].trackId = earlierFrame[1].trackId
    /\ trackingId = pre.trackingId

\* C6: after a successful call the tracker holds exactly the list that call
\* returned; an id not carried by that one earlier frame is never handed out
\* again, so after an empty frame every detection gets a fresh id.
C6_OneFrameMemory ==
    DetectSucceeded =>
        /\ previousDetections = laterFrame
        /\ \A i \in DOMAIN laterFrame :
            \/ \E j \in DOMAIN earlierFrame :
                laterFrame[i].trackId = earlierFrame[j].trackId
            \/ Fresh(laterFrame[i])
        /\ earlierFrame = <<>> =>
            \A i \in DOMAIN laterFrame : Fresh(laterFrame[i])

\* C6 witness: ids had been issued, the frame before was empty, and the
\* detection that then appeared got a fresh id.
C6_Witness ==
    /\ DetectSucceeded
    /\ pre.issued # {}
    /\ earlierFrame = <<>>
    /\ Len(laterFrame) = 1
    /\ Fresh(laterFrame[1])
    /\ previousDetections = laterFrame

\* The detections of the returned frame that found no match.
Unmatched == { i \in DOMAIN laterFrame : ~HasNear(laterFrame[i]) }

\* C7: the counter never falls below an earlier value, a call moves it by
\* the number of its unmatched detections and nothing else moves it, and
\* every returned detection's trackId lies between 1 and the counter.
C7_CounterMonotone ==
    /\ trackingId >= pre.trackingId
    /\ DetectSucceeded => trackingId = pre.trackingId + Cardinality(Unmatched)
    /\ ~DetectSucceeded => trackingId = pre.trackingId
    /\ \A i \in DOMAIN laterFrame : laterFrame[i].trackId \in 1..trackingId
    /\ \A i \in DOMAIN previousDetections :
        previousDetections[i].trackId \in 1..trackingId
    /\ issued \subseteq 1..trackingId

\* C7 witness: a call with one matched and one unmatched detection moved a
\* counter that was already positive by exactly one.
C7_Witness ==
    /\ DetectSucceeded
    /\ pre.trackingId >= 1
    /\ Len(laterFrame) = 2
    /\ Cardinality(Unmatched) = 1
    /\ trackingId = pre.trackingId + 1

\* C8: a detectObjects call made while no model is loaded is rejected with
\* ModelNotReady, hands back no list, and model.detect is never invoked
\* without a model.
C8_ModelNotReady ==
    /\ (detRet.kind # "none" /\ pre.model = "null") =>
        /\ detRet.kind = "rejected"
        /\ detRet.error = "ModelNotReady"
        /\ detRet.modelOutcome = "notcalled"
        /\ detRet.value = <<>>
    /\ inflight > 0 => model = "loaded"

\* C8 witness: a call rejected while a load was in progress, after an
\* earlier load had failed.
C8_Witness ==
    /\ detRet.kind = "rejected"
    /\ detRet.error = "ModelNotReady"
    /\ pre.model = "null"
    /\ pre.isLoading
    /\ loadRet.kind = "rejected"

\* C9: when the model is loaded and model.detect raises, detectObjects
\* resolves with the empty list.
C9_DetectFailureYieldsEmpty ==
    detRet.modelOutcome = "raised" =>
        /\ pre.model = "loaded"
        /\ detRet.kind = "resolved"
        /\ detRet.value = <<>>

\* C9 witness: model.detect raised on a detector that was tracking objects.
C9_Witness ==
    /\ detRet.modelOutcome = "raised"
    /\ detRet.kind = "resolved"
    /\ detRet.value = <<>>
    /\ pre.model = "loaded"
    /\ previousDetections # <<>>

\* C10: a loadModel call whose backend setup or model load failed rejects,
\* and when it settles no model is loaded and the loading flag is clear;
\* the flag is set only while some loadModel call is still suspended.
C10_LoadFailurePropagates ==
    /\ loadRet.via = "catch" =>
        /\ loadRet.kind = "rejected"
        /\ loadRet.model = "null"
        /\ loadRet.isLoading = FALSE
    /\ loadRet.via = "load" => loadRet.isLoading = FALSE
    /\ isLoading => \E c \in Callers : loadPc[c] # "idle"

\* C10 witness: a load was rejected and the detector is idle and unloaded.
C10_Witness ==
    /\ loadRet.via = "catch"
    /\ loadRet.kind = "rejected"
    /\ model = "null"
    /\ ~isLoading
    /\ \A c \in Callers : loadPc[c] = "idle"

(***************************************************************************)
(* Properties of the ROI monitor.                                          *)
(***************************************************************************)
\* The restricted zones currently held.
RestrictedZones == { i \in DOMAIN zones : zones[i].type = "restricted" }

\* Some detection of the current frame has its center inside the zone.
Occupied(zone) ==
    \E k \in DOMAIN detectionResults :
        LET d == detectionResults[k]
        IN  /\ 2 * d.x + d.width >= 2 * zone.x
            /\ 2 * d.x + d.width <= 2 * (zone.x + zone.width)
            /\ 2 * d.y + d.height >= 2 * zone.y
            /\ 2 * d.y + d.height <= 2 * (zone.y + zone.height)

\* C13: the zone-violation check runs once per delivered frame, so a frame
\* produces at most one alert per (detection, restricted zone) pair; no
\* zone but the initial one is restricted, so one frame produces at most as
\* many alerts as it has detections.
C13_OneAlertPerPairPerFrame ==
    /\ Cardinality(RestrictedZones) <= 1
    /\ frameAlerts <= Len(detectionResults)

\* C14: the alert history holds exactly the min(n, 10) most recent of the n
\* alerts generated so far, newest first, in arrival order.
C14_HistoryCapped ==
    /\ Len(alerts) = Min(alertTotal, HistoryKept + 1)
    /\ \A i \in DOMAIN alerts : alerts[i].timestamp = alertTotal - i + 1

\* C14 witness: more alerts were generated than the history keeps; the
\* oldest one is gone and the second oldest is the last entry.
C14_Witness ==
    /\ alertTotal = HistoryKept + 2
    /\ Len(alerts) = HistoryKept + 1
    /\ alerts[1].timestamp = HistoryKept + 2
    /\ alerts[HistoryKept + 1].timestamp = 2

\* C15: a zone's alertCount is the number of alerts generated for it since
\* it was created: every alert adds one to its own zone and to no other,
\* and toggling, adding or removing zones leaves every count as it was.
C15_AlertCountIsViolationCount ==
    \A i \in DOMAIN zones : zones[i].alertCount = violationsOf[zones[i].id]

\* C15 witness: the restricted zone has counted one violation more than
\* the history holds, next to an added zone and a toggled zone still at 0.
C15_Witness ==
    /\ \E i \in DOMAIN zones :
          /\ zones[i].alertCount = HistoryKept + 2
          /\ zones[i].alertCount > Len(alerts)
    /\ \E i \in DOMAIN zones : zones[i].id \in AddedZoneIds /\ zones[i].alertCount = 0
    /\ \E i \in DOMAIN zones : ~zones[i].isActive /\ zones[i].alertCount = 0

\* The doubled center of the probed detection and the doubled edges of the
\* probed zone.
probeCx == 2 * probe.detection.x + probe.detection.width
probeCy == 2 * probe.detection.y + probe.detection.height
probeLeft == 2 * probe.zone.x
probeRight == 2 * (probe.zone.x + probe.zone.width)
probeTop == 2 * probe.zone.y
probeBottom == 2 * (probe.zone.y + probe.zone.height)

\* C16: a center is inside the zone exactly when it is not left of, right
\* of, above or below the zone's rectangle; a center on an edge or a corner
\* is inside.
C16_BoundaryInclusive ==
    probe # NoProbe =>
        /\ probe.inside <=> ~( \/ probeCx < probeLeft
                               \/ probeCx > probeRight
                               \/ probeCy < probeTop
                               \/ probeCy > probeBottom )
        /\ ( /\ probeCx \in {probeLeft, probeRight}
             /\ probeCy >= probeTop
             /\ probeCy <= probeBottom ) => probe.inside
        /\ ( /\ probeCy \in {probeTop, probeBottom}
             /\ probeCx >= probeLeft
             /\ probeCx <= probeRight ) => probe.inside

\* C16 witness: a center on the bottom-right corner of the zone is inside.
C16_Witness ==
    /\ probe # NoProbe
    /\ probeCx = probeRight
    /\ probeCy = probeBottom
    /\ probe.inside

\* C17: a run of the check never adds an alert for a zone whose isActive
\* flag is false and never increments that zone's alertCount.
C17_InactiveZoneSilent ==
    [][ alertTotal' # alertTotal =>
          /\ \A i \in DOMAIN zones :
                ~zones[i].isActive => zones'[i].alertCount = zones[i].alertCount
          /\ \A k \in 1..Min(alertTotal' - alertTotal, Len(alertSrc')) :
                alertSrc'[k].zoneActive ]_allVars

\* C17 witness: the check has run on a frame with a detection inside the
\* deactivated restricted zone, which had raised alerts while active, and
\* the frame has produced no alert.
C17_Witness ==
    /\ \E i \in DOMAIN zones :
          /\ zones[i].type = "restricted"
          /\ ~zones[i].isActive
          /\ zones[i].alertCount > 0
          /\ Occupied(zones[i])
    /\ frameEvals # "never"
    /\ ~effectPending
    /\ frameAlerts = 0

\* C18: only restricted zones raise alerts: every zone of another type has
\* alertCount 0, and every alert held has severity high, comes from a
\* restricted zone and carries that zone's name and the detection's label.
C18_OnlyRestrictedAlerts ==
    /\ \A i \in DOMAIN zones : zones[i].type # "restricted" => zones[i].alertCount = 0
    /\ Len(alertSrc) = Len(alerts)
    /\ \A k \in DOMAIN alerts :
          /\ alerts[k].severity = "high"
          /\ alertSrc[k].zoneType = "restricted"
          /\ alerts[k].zoneName = alertSrc[k].zoneName
          /\ alerts[k].objectType = alertSrc[k].label

\* C18 witness: the check has run on a frame with a car inside both the
\* restricted zone and an added zone: one alert names the restricted zone
\* and the car, and the added zone still counts 0.
C18_Witness ==
    /\ frameEvals # "never"
    /\ \E i \in DOMAIN zones :
          /\ zones[i].id \in AddedZoneIds
          /\ zones[i].isActive
          /\ Occupied(zones[i])
          /\ zones[i].alertCount = 0
    /\ \E i \in DOMAIN zones :
          /\ zones[i].type = "monitored"
          /\ zones[i].id \notin AddedZoneIds
          /\ zones[i].isActive
          /\ Occupied(zones[i])
          /\ zones[i].alertCount = 0
    /\ alerts # <<>>
    /\ alerts[1].zoneName = "Restricted Area"
    /\ alerts[1].objectType = "car"

(***************************************************************************)
(* Properties of the detection panel.                                      *)
(***************************************************************************)
\* The camera stream is attached to the <video> element of an active stream
\* and a model is loaded.
StreamRunning ==
    /\ VideoRendered(mounted, hooks)
    /\ srcObject
    /\ ~ModelMissing

\* A detectObjects call for a video frame is in flight.
FrameInFlight == \E i \in DOMAIN awaiting : awaiting[i].kind = "stream"

\* An animation frame is requested for the next video frame.
FrameScheduled == \E cb \in callbacks : cb.kind = "frame"

\* C11: a setup failure (the model load of the mount effect, or camera
\* access in startStreamDetection) is surfaced.  The component holds no
\* error state and shows no error text, so the failure can only surface as
\* a rejection of the handler that met it.
C11_SetupFailureSurfaced ==
    \A f \in failures :
        \E o \in outcomes : o.failure = f /\ o.kind = "rejected"

C19_CameraReleased == (~mounted \/ ~hooks.streamActive) => liveTracks = 0

\* C20: from stopStreamDetection on, as long as neither a stream nor a
\* detection call is started, the displayed detections and the results
\* handed to onDetectionResults are empty.
C20_StaysEmptyAfterStop ==
    stopClean => (hooks.detections = <<>> /\ detectionResults = <<>>)

(***************************************************************************)
(* Further properties of the detector.                                     *)
(***************************************************************************)
\* C27: whenever a loadModel call resolves, a model is loaded at that
\* moment; and at most one caller is inside the loading steps at a time.
C27_ResolvedLoadMeansLoaded ==
    /\ Cardinality({c \in Callers : loadPc[c] # "idle"}) <= 1
    /\ loadRet.kind = "resolved" => loadRet.model = "loaded"

\* The last settled detectObjects call failed: it threw for want of a
\* model, or model.detect raised.
DetectFailed == detRet.kind = "rejected" \/ detRet.modelOutcome = "raised"

\* C28: a detectObjects call that failed left the tracker counter and the
\* previous-frame list as they were when it settled.
C28_FailureKeepsTracker ==
    DetectFailed =>
        /\ previousDetections = pre.previousDetections
        /\ trackingId = pre.trackingId

\* C28 witness: model.detect raised while the tracker held a frame and had
\* allocated ids; frame and counter are still there.
C28_Witness ==
    /\ detRet.modelOutcome = "raised"
    /\ pre.previousDetections # <<>>
    /\ pre.trackingId > 0
    /\ previousDetections = pre.previousDetections
    /\ trackingId = pre.trackingId

(***************************************************************************)
(* C29.  The point the zone monitor tests and the center the adapter       *)
(* stored.                                                                 *)
(***************************************************************************)
\* The membership test of lines 69-74 applied to the adapter's centerX and
\* centerY fields of the probed detection.
InsideByAdapterCenter ==
    /\ probe.detection.centerX >= probe.zone.x
    /\ probe.detection.centerX <= probe.zone.x + probe.zone.width
    /\ probe.detection.centerY >= probe.zone.y
    /\ probe.detection.centerY <= probe.zone.y + probe.zone.height

\* C29: for every raw bounding box, the zone monitor's verdict on a detection
\* is the verdict its test gives for the detection's centerX/centerY fields:
\* the two centers never disagree about membership in a zone.
C29_CentersAgreeOnMembership ==
    probe # NoProbe => (probe.inside <=> InsideByAdapterCenter)

(***************************************************************************)
(* C23, C24.  The derived fields of one detection record.                  *)
(***************************************************************************)
Abs(n) == IF n < 0 THEN -n ELSE n

\* The record made of the last raw prediction mapped.
made == adapted.detection

\* The center fields against the rounded box, compared doubled.
CenterMatchesRoundedBox ==
    adapted # NoAdapted =>
        /\ Abs(2 * made.centerX - (2 * made.x + made.width)) <= 2
        /\ Abs(2 * made.centerY - (2 * made.y + made.height)) <= 2

\* The area field against the rounded box.
AreaMatchesRoundedBox ==
    adapted # NoAdapted => Abs(made.area - made.width * made.height) <= 1

\* C23: for every raw bounding box with non-negative coordinates and
\* dimensions, over the record's own rounded x, y, width, height: centerX and
\* centerY are within 1 of x + width/2 and y + height/2, and area is within
\* 1 of width * height.
C23_DerivedFieldsMatchRoundedBox ==
    CenterMatchesRoundedBox /\ AreaMatchesRoundedBox

\* The raw prediction of the example: person, x=100, y=100, width=50, height=100.
ExamplePrediction ==
    [class |-> "person",
     bbox  |-> <<100 * Scale, 100 * Scale, 50 * Scale, 100 * Scale>>]

\* C24: the example prediction yields centerX = 125, centerY = 150,
\* area = 5000 and aspectRatio = 0.5 (50 hundredths: width / height rounded
\* to two decimals).
C24_ExampleRecord ==
    adapted.prediction = ExamplePrediction =>
        /\ made.label = "person"
        /\ made.centerX = 125
        /\ made.centerY = 150
        /\ made.area = 5000
        /\ made.aspectRatio = 50

C24_Witness ==
    /\ adapted.prediction = ExamplePrediction
    /\ made.x = 100
    /\ made.y = 100
    /\ made.width = 50
    /\ made.height = 100
    /\ made.centerX = 125

(***************************************************************************)
(* C25.  One record per prediction, in order, with ids unique in the frame.*)
(***************************************************************************)
\* C25: a successful detectObjects call returns one detection per raw
\* prediction in the model's order, and the ids of that frame's detections
\* are pairwise distinct, each made of the frame's one timestamp and the
\* prediction's 0-based index.
C25_OnePerPredictionUniqueIds ==
    DetectSucceeded =>
        /\ Len(detRet.value) = Len(detRet.input)
        /\ \A i \in DOMAIN detRet.value :
              /\ detRet.value[i].label = detRet.input[i].class
              /\ detRet.value[i].x = Round(detRet.input[i].bbox[1], Scale)
              /\ detRet.value[i].y = Round(detRet.input[i].bbox[2], Scale)
              /\ detRet.value[i].timestamp = detRet.value[1].timestamp
              /\ detRet.value[i].id = <<detRet.value[1].timestamp, i - 1>>
        /\ \A i, j \in DOMAIN detRet.value :
              i # j => detRet.value[i].id # detRet.value[j].id

C25_Witness ==
    /\ DetectSucceeded
    /\ Len(detRet.input) = 2
    /\ detRet.input[1] # detRet.input[2]
    /\ Len(detRet.value) = 2
    /\ detRet.value[1].id # detRet.value[2].id
    /\ detRet.value[1].label = detRet.input[1].class
    /\ detRet.value[2].label = detRet.input[2].class

(***************************************************************************)
(* C21, C22, C26.  The frame loop of stream mode.                          *)
(***************************************************************************)
\* No detectObjects call for a video frame is ever made or scheduled: the
\* processVideoFrame that startStreamDetection calls captured
\* streamActive = false and returns at line 315.
NoStreamFrames == ~FrameInFlight /\ ~FrameScheduled

\* C26: once the stream is running (model loaded, camera granted), either a
\* detectObjects call for a video frame is eventually in flight or the
\* stream is stopped.
C26_FrameProcessingBegins == StreamRunning ~> (FrameInFlight \/ ~StreamRunning)

(***************************************************************************)
(* C30.  Entries of the tracking panel across frames.                      *)
(***************************************************************************)
\* Entry j of the previous list is the object tracked under detection d's
\* track: it was made of a detection carrying the same trackId.
SameTrack(j, d) == prevTracked[j].trackId = d.trackId

\* Entry i of the new list continues entry j of the previous one.
Continues(i, j) ==
    /\ StrictEquals(trackedObjects[i].id, Num(shown[i].trackId))
    /\ trackedObjects[i].firstSeen = prevTracked[j].firstSeen
    /\ trackedObjects[i].frameCount = prevTracked[j].frameCount + 1
    /\ trackedObjects[i].trajectory =
           Append(LastN(prevTracked[j].trajectory, TrajectoryKept),
                  Point(shown[i], trackedObjects[i].lastSeen))

\* C30: a detection whose trackId is that of an object tracked in the
\* previous non-empty frame continues that object: its entry has the numeric
\* track id as id, the object's firstSeen, its frameCount plus one, and its
\* trajectory (last 10 points) extended by the new position.
C30_SameTrackContinues ==
    \A i \in DOMAIN shown :
        (\E j \in DOMAIN prevTracked : SameTrack(j, shown[i]))
            => (\E j \in DOMAIN prevTracked : SameTrack(j, shown[i]) /\ Continues(i, j))

\* The test of line 37 never finds an entry: every entry's id is the
\* detection's string id, which no number equals.
NeverContinued ==
    /\ \A i \in DOMAIN trackedObjects :
          /\ trackedObjects[i].id.type = "string"
          /\ trackedObjects[i].frameCount = 1
          /\ Len(trackedObjects[i].trajectory) = 1

====
